---- MODULE Spec2Model ----
(***************************************************************************)
(* Model of refined/dataset_reading/entity_linking/elevant_article_parser  *)
(* (EntityMention, entity_mention_from_dict, Article).                      *)
(*                                                                         *)
(* Python values are modelled as follows.                                  *)
(*   - a span (begin, end) is the tuple <<begin, end>>;                    *)
(*   - an Optional value is None (the empty tuple) or Some(x) == <<x>>;     *)
(*   - a dict is the sequence of its <<key, value>> items in iteration      *)
(*     order (Python dicts iterate in insertion order and assigning to an   *)
(*     existing key keeps the key's position);                              *)
(*   - a numpy array of length n is a sequence of length n, the 0-based     *)
(*     position p being element p + 1;                                      *)
(*   - entity identifiers (strings) are small naturals whose numeric order  *)
(*     stands for the lexicographic order of the strings.                   *)
(***************************************************************************)
EXTENDS Integers, Sequences, FiniteSets

VARIABLES
    text_len,         \* len(Article.text)
    entity_mentions,  \* Article.entity_mentions : dict span -> EntityMention
    span_to_span_id,  \* Article.span_to_span_id : dict span -> int
    spans,            \* Article.spans           : list of spans
    entity_coverage,  \* Article.entity_coverage : int array of length len(text)
    raised,           \* TRUE iff the last Article call ended with an exception
    added,            \* every mention handed to the Article so far, in order
    assigned,         \* the value of new_span_id computed for each of them
    mention,          \* an EntityMention object
    dict,             \* the last result of mention.to_dict(...), or None
    parsed,           \* the last result of entity_mention_from_dict(dict), or None
    overlap           \* the last call of mention.overlaps(span), or None

vars == <<text_len, entity_mentions, span_to_span_id, spans, entity_coverage,
          raised, added, assigned, mention, dict, parsed, overlap>>

articleVars == <<text_len, entity_mentions, span_to_span_id, spans,
                 entity_coverage, raised, added, assigned>>

mentionVars == <<mention, dict, parsed, overlap>>

----------------------------------------------------------------------------
(* Bounds of the model.                                                    *)

MaxTextLen == 2
MaxMentions == 3
MaxBatch == 2
MaxCoord == 3
MaxCand == 2

----------------------------------------------------------------------------
(* Python values.                                                          *)

None == <<>>
Some(x) == <<x>>
Opt(S) == {None} \cup {Some(x) : x \in S}

Min(a, b) == IF a <= b THEN a ELSE b
Max(a, b) == IF a >= b THEN a ELSE b

(* dict: sequence of <<key, value>> items in iteration order.              *)
DictKeys(dd) == [i \in 1..Len(dd) |-> dd[i][1]]
DictKeySet(dd) == {dd[i][1] : i \in 1..Len(dd)}
DictHas(dd, k) == k \in DictKeySet(dd)
DictGet(dd, k) == dd[CHOOSE i \in 1..Len(dd) : dd[i][1] = k][2]

(* A dict assignment that moves a re-assigned key to the end of the        *)
(* iteration order instead of keeping its position.                        *)
DictSetMoveToEnd(dd, k, v) ==
    Append(SelectSeq(dd, LAMBDA it : it[1] # k), <<k, v>>)

(* dd[k] = v : an existing key keeps its position, a new key is appended.  *)
DictSet(dd, k, v) ==
    IF DictHas(dd, k)
    THEN [i \in 1..Len(dd) |-> IF dd[i][1] = k THEN <<k, v>> ELSE dd[i]]
    ELSE Append(dd, <<k, v>>)

----------------------------------------------------------------------------
(* numpy: arr[begin:end] = value.                                          *)

(* Slice bounds that take the end offset as inclusive.                     *)
SliceIndicesInclusive(begin, end, n) ==
    LET clip(x) == IF x < 0 THEN Max(x + n, 0) ELSE Min(x, n)
    IN  <<clip(begin), clip(end) + 1>>

(* The bounds Python gives the slice begin:end of a sequence of length n:  *)
(* a negative offset counts from the end, and both are clipped to 0..n.    *)
SliceIndices(begin, end, n) ==
    LET clip(x) == IF x < 0 THEN Max(x + n, 0) ELSE Min(x, n)
    IN  <<clip(begin), clip(end)>>

(* A slice assignment that checks its bounds the way element indexing      *)
(* does, and raises IndexError when they lie outside the array.            *)
SetSliceChecked(arr, begin, end, value) ==
    IF begin < 0 \/ end > Len(arr)
    THEN [raised |-> TRUE, arr |-> arr]
    ELSE [raised |-> FALSE,
          arr |-> [i \in 1..Len(arr) |->
                     IF begin <= i - 1 /\ i - 1 < end THEN value ELSE arr[i]]]

(* arr[begin:end] = value for a scalar value: never raises; writes the     *)
(* positions start <= p < stop of SliceIndices.                            *)
SetSlice(arr, begin, end, value) ==
    LET ix == SliceIndices(begin, end, Len(arr))
    IN  [raised |-> FALSE,
         arr |-> [i \in 1..Len(arr) |->
                    IF ix[1] <= i - 1 /\ i - 1 < ix[2] THEN value ELSE arr[i]]]

----------------------------------------------------------------------------
(* Article.                                                                *)

(* The spans a caller may hand over for a text of length n: begin <= end,  *)
(* possibly empty, possibly reaching outside the text on either side.      *)
SpanSet(n) == {s \in ((0 - 1)..(n + 1)) \X ((0 - 1)..(n + 1)) : s[1] <= s[2]}

SpanLists(n, k) == UNION {[1..j -> SpanSet(n)] : j \in 0..k}

(* The EntityMention objects built for a list of spans; oid is the         *)
(* identity of the object (the base + i-th object created).                *)
NewMentions(spanList, base) ==
    [i \in 1..Len(spanList) |-> [span |-> spanList[i], oid |-> base + i]]

(* Ids counted from zero.                                                  *)
NewSpanIdZeroBased(s2id) == Len(s2id)

(* new_span_id = len(self.span_to_span_id) + 1                             *)
NewSpanId(s2id) == Len(s2id) + 1

(* One iteration of the loop of add_entity_mentions.                       *)
AddMention(a, m) ==
    [entity_mentions |-> DictSet(a.entity_mentions, m.span, m),
     span_to_span_id |-> DictSet(a.span_to_span_id, m.span,
                                 NewSpanId(a.span_to_span_id)),
     spans           |-> Append(a.spans, m.span),
     assigned        |-> Append(a.assigned, NewSpanId(a.span_to_span_id))]

(* The loop of add_entity_mentions over the list ms.                       *)
RECURSIVE AddMentions(_, _)
AddMentions(a, ms) ==
    IF ms = <<>> THEN a ELSE AddMentions(AddMention(a, Head(ms)), Tail(ms))

(* The loop of _update_entity_coverage over the keys of entity_mentions,   *)
(* in iteration order; an exception ends it.                               *)
RECURSIVE WriteCoverage(_, _, _)
WriteCoverage(cov, keys, s2id) ==
    IF keys = <<>> THEN [raised |-> FALSE, arr |-> cov]
    ELSE LET span == Head(keys)
             w == SetSlice(cov, span[1], span[2], DictGet(s2id, span))
         IN  IF w.raised THEN w ELSE WriteCoverage(w.arr, Tail(keys), s2id)

(* A coverage pass that writes the spans in reverse iteration order.       *)
UpdateEntityCoverageReversed(n, em, s2id) ==
    WriteCoverage([i \in 1..n |-> 0],
                  [i \in 1..Len(em) |-> DictKeys(em)[Len(em) + 1 - i]], s2id)

(* _update_entity_coverage: np.zeros(len(text)), then one slice write per  *)
(* key of entity_mentions.                                                 *)
UpdateEntityCoverage(n, em, s2id) ==
    WriteCoverage([i \in 1..n |-> 0], DictKeys(em), s2id)

(* The fields of a freshly constructed Article before the constructor      *)
(* calls add_entity_mentions.                                              *)
EmptyArticle ==
    [entity_mentions |-> <<>>, span_to_span_id |-> <<>>, spans |-> <<>>,
     assigned |-> <<>>]

(* add_entity_mentions(arg) on the fields a of an Article with a text of   *)
(* length n; arg is None or Some(list of mentions).                        *)
AddEntityMentionsResult(n, a, arg) ==
    LET b == IF arg # None THEN AddMentions(a, arg[1]) ELSE a
        c == UpdateEntityCoverage(n, b.entity_mentions, b.span_to_span_id)
    IN  [article |-> b, entity_coverage |-> c.arr, raised |-> c.raised]

(* The argument of a call: None, or a list of newly built mentions.        *)
Args(n, room, base) ==
    {None} \cup {Some(NewMentions(sl, base)) :
                    sl \in SpanLists(n, Min(MaxBatch, room))}

ArgMentions(arg) == IF arg = None THEN <<>> ELSE arg[1]

----------------------------------------------------------------------------
(* EntityMention.                                                          *)

(* EntityMention.__init__: candidates defaults to the empty set.           *)
EntityMention(span, recognized_by, entity_id, linked_by, candidates, referenced_span, contained) ==
    [span            |-> span,
     recognized_by   |-> recognized_by,
     entity_id       |-> entity_id,
     linked_by       |-> linked_by,
     referenced_span |-> referenced_span,
     candidates      |-> IF candidates # None THEN candidates[1] ELSE {},
     contained       |-> contained]

(* The mention the Article specification leaves untouched.                 *)
IdleMention == EntityMention(<<0, 0>>, None, None, None, None, None, None)

(* sorted(S) for a set of identifiers.                                     *)
Sorted(S) ==
    CHOOSE sq \in [1..Cardinality(S) -> S] :
      \A i, j \in 1..Cardinality(S) : i < j => sq[i] < sq[j]

(* The dictionary of to_dict before the evaluation-format fields: "span"   *)
(* always, "id" when entity_id is not None.                                *)
BaseFields(m) ==
    LET d == DictSet(<<>>, "span", m.span)
    IN  IF m.entity_id # None THEN DictSet(d, "id", m.entity_id[1]) ELSE d

(* Evaluation-format fields written with truthiness tests (if x:) instead  *)
(* of "is not None" tests.                                                 *)
EvaluationFieldsTruthy(m, d) ==
    LET d1 == IF m.recognized_by # None
              THEN DictSet(d, "recognized_by", m.recognized_by[1]) ELSE d
        d2 == IF m.linked_by # None
              THEN DictSet(d1, "linked_by", m.linked_by[1]) ELSE d1
        d3 == IF m.referenced_span # None
              THEN DictSet(d2, "referenced_span", m.referenced_span[1]) ELSE d2
        d4 == IF m.candidates # {}
              THEN DictSet(d3, "candidates", Sorted(m.candidates)) ELSE d3
    IN  IF m.contained = Some(TRUE)
        THEN DictSet(d4, "contained", m.contained[1]) ELSE d4

(* The body of "if evaluation_format:" in to_dict.  candidates is a set    *)
(* after construction, never None, so "candidates" is always written.      *)
EvaluationFields(m, d) ==
    LET d1 == IF m.recognized_by # None
              THEN DictSet(d, "recognized_by", m.recognized_by[1]) ELSE d
        d2 == IF m.linked_by # None
              THEN DictSet(d1, "linked_by", m.linked_by[1]) ELSE d1
        d3 == IF m.referenced_span # None
              THEN DictSet(d2, "referenced_span", m.referenced_span[1]) ELSE d2
        d4 == DictSet(d3, "candidates", Sorted(m.candidates))
    IN  IF m.contained # None
        THEN DictSet(d4, "contained", m.contained[1]) ELSE d4

(* A to_dict that writes the evaluation-format fields whatever the flag.   *)
ToDictAlwaysEvaluation(m, evaluation_format) ==
    EvaluationFields(m, BaseFields(m))

(* EntityMention.to_dict(evaluation_format).                               *)
ToDict(m, evaluation_format) ==
    IF evaluation_format THEN EvaluationFields(m, BaseFields(m))
    ELSE BaseFields(m)

(* data[key] if key in data else None                                      *)
GetOrNone(data, key) == IF DictHas(data, key) THEN Some(DictGet(data, key)) ELSE None

(* entity_mention_from_dict(data): tuple(data["span"]), the optional keys, *)
(* and set(data["candidates"]) when the key is present.                    *)
FromDict(data) ==
    LET sp == DictGet(data, "span")
        cs == DictGet(data, "candidates")
    IN  EntityMention(<<sp[1], sp[2]>>,
                      GetOrNone(data, "recognized_by"),
                      GetOrNone(data, "id"),
                      GetOrNone(data, "linked_by"),
                      IF DictHas(data, "candidates")
                      THEN Some({cs[i] : i \in 1..Len(cs)}) ELSE None,
                      GetOrNone(data, "referenced_span"),
                      GetOrNone(data, "contained"))

(* An overlap test with inclusive comparisons.                             *)
OverlapsInclusive(m, span) == m.span[1] <= span[2] /\ m.span[2] >= span[1]

(* EntityMention.overlaps(span).                                           *)
Overlaps(m, span) == m.span[1] < span[2] /\ m.span[2] > span[1]

----------------------------------------------------------------------------
(* Specification of the Article: construction, then add_entity_mentions.   *)

(* Article.__init__(text, entity_mentions = arg).                          *)
Init ==
    \E n \in 0..MaxTextLen :
      \E arg \in Args(n, MaxMentions, 0) :
        \E r \in {AddEntityMentionsResult(n, EmptyArticle, arg)} :
            /\ text_len = n
            /\ entity_mentions = r.article.entity_mentions
            /\ span_to_span_id = r.article.span_to_span_id
            /\ spans = r.article.spans
            /\ assigned = r.article.assigned
            /\ entity_coverage = r.entity_coverage
            /\ raised = r.raised
            /\ added = ArgMentions(arg)
            /\ mention = IdleMention
            /\ dict = None
            /\ parsed = None
            /\ overlap = None

(* Article.add_entity_mentions(arg).                                       *)
AddEntityMentions ==
    /\ ~raised
    /\ \E arg \in Args(text_len, MaxMentions - Len(added), Len(added)) :
        \E r \in {AddEntityMentionsResult(text_len,
                    [entity_mentions |-> entity_mentions,
                     span_to_span_id |-> span_to_span_id,
                     spans |-> spans, assigned |-> assigned], arg)} :
            /\ entity_mentions' = r.article.entity_mentions
            /\ span_to_span_id' = r.article.span_to_span_id
            /\ spans' = r.article.spans
            /\ assigned' = r.article.assigned
            /\ entity_coverage' = r.entity_coverage
            /\ raised' = r.raised
            /\ added' = added \o ArgMentions(arg)
    /\ UNCHANGED <<text_len, mention, dict, parsed, overlap>>

Next == AddEntityMentions

Spec == Init /\ [][Next]_vars

----------------------------------------------------------------------------
(* Properties of the Article.                                              *)

Positions == 0..(text_len - 1)
Cov(p) == entity_coverage[p + 1]
Contains(s, p) == s[1] <= p /\ p < s[2]
ValidSpan(s) == 0 <= s[1] /\ s[1] < s[2] /\ s[2] <= text_len
OutOfRange(s) == s[1] < 0 \/ s[2] > text_len
AllValid == \A k \in 1..Len(added) : ValidSpan(added[k].span)
PairwiseDistinct ==
    \A j, k \in 1..Len(added) : j # k => added[j].span # added[k].span
IndexedSpans == DictKeySet(entity_mentions)
CoveredBy(p) == {s \in IndexedSpans : Contains(s, p)}
SpanId(s) == DictGet(span_to_span_id, s)
FirstAdded(s) == CHOOSE k \in 1..Len(added) :
    /\ added[k].span = s
    /\ \A j \in 1..(k - 1) : added[j].span # s
LastAdded(s) == CHOOSE k \in 1..Len(added) :
    /\ added[k].span = s
    /\ \A j \in (k + 1)..Len(added) : added[j].span # s
SomeSpanReAdded == \E j, k \in 1..Len(added) : j < k /\ added[j].span = added[k].span
CalledAfterConstruction == Len(added) > MaxBatch

(* C1: with valid spans (0 <= begin < end <= len(text)), entity_coverage   *)
(* has length len(text); a position holds 0 iff no indexed span contains   *)
(* it, and otherwise holds the current id of an indexed span containing    *)
(* it; without mentions the array is all zero.                             *)
C1_CoverageReflectsMentions ==
    AllValid =>
      /\ Len(entity_coverage) = text_len
      /\ \A p \in Positions :
           /\ (Cov(p) = 0) <=> (CoveredBy(p) = {})
           /\ Cov(p) # 0 => \E s \in CoveredBy(p) : Cov(p) = SpanId(s)
      /\ added = <<>> => \A p \in Positions : Cov(p) = 0

C1_Witness ==
    /\ AllValid
    /\ CalledAfterConstruction
    /\ \E p, q \in Positions : Cov(p) # 0 /\ Cov(q) = 0

(* C2 as stated: every covered position holds the id of the span of the    *)
(* most recently added mention among those whose span contains it.         *)
C2_LastAddedMentionWins ==
    AllValid =>
      \A p \in Positions :
        LET ks == {k \in 1..Len(added) : Contains(added[k].span, p)}
        IN  ks # {} =>
              Cov(p) = SpanId(added[CHOOSE k \in ks : \A j \in ks : j <= k].span)

(* C2 amended: every covered position holds the current id of the span,    *)
(* among the indexed spans containing it, whose first insertion is the     *)
(* latest (a re-added span keeps the place of its first insertion).        *)
C2_LastFirstInsertedSpanWins ==
    AllValid =>
      \A p \in Positions :
        CoveredBy(p) # {} =>
          Cov(p) = SpanId(CHOOSE s \in CoveredBy(p) :
                     \A t \in CoveredBy(p) : FirstAdded(t) <= FirstAdded(s))

C2_Witness ==
    /\ AllValid
    /\ SomeSpanReAdded
    /\ \E p \in Positions : \E s, t \in CoveredBy(p) :
         /\ FirstAdded(s) < FirstAdded(t)
         /\ FirstAdded(t) < LastAdded(s)
         /\ Cov(p) = SpanId(t)
         /\ SpanId(t) # SpanId(s)

(* C3: when the added spans are pairwise distinct, the k-th mention added  *)
(* has id k and spans lists the added spans in order; no mention is ever   *)
(* assigned id 0.                                                          *)
C3_IdsInInsertionOrder ==
    /\ PairwiseDistinct =>
         /\ \A k \in 1..Len(added) : SpanId(added[k].span) = k
         /\ spans = [k \in 1..Len(added) |-> added[k].span]
    /\ \A k \in 1..Len(assigned) : assigned[k] # 0
    /\ \A i \in 1..Len(span_to_span_id) : span_to_span_id[i][2] # 0

C3_Witness == PairwiseDistinct /\ CalledAfterConstruction

(* C4 as stated: a span outside [0, len(text)) makes the call raise.       *)
C4_OutOfRangeRaises ==
    (\E k \in 1..Len(added) : OutOfRange(added[k].span)) => raised

(* C4 amended: a span outside [0, len(text)) does not make the call        *)
(* raise; the slice is clipped to the array (a negative offset counting    *)
(* from the end), and the coverage array of length len(text) is nonzero    *)
(* exactly inside the clipped slices of the indexed spans.                 *)
C4_OutOfRangeIsClipped ==
    (\E k \in 1..Len(added) : OutOfRange(added[k].span)) =>
      /\ ~raised
      /\ Len(entity_coverage) = text_len
      /\ \A p \in Positions :
           (Cov(p) # 0) <=>
             \E s \in IndexedSpans :
               LET lo == IF s[1] < 0 THEN Max(text_len + s[1], 0) ELSE s[1]
                   hi == IF s[2] < 0 THEN Max(text_len + s[2], 0)
                         ELSE Min(s[2], text_len)
               IN  lo <= p /\ p < hi

C4_Witness ==
    /\ CalledAfterConstruction
    /\ \E k \in 1..Len(added) : added[k].span[2] > text_len
    /\ \E k \in 1..Len(added) : added[k].span[1] < 0
    /\ \E p \in Positions : Cov(p) # 0

RECURSIVE Dedup(_)
Dedup(sq) ==
    IF sq = <<>> THEN <<>>
    ELSE LET front == Dedup(SubSeq(sq, 1, Len(sq) - 1))
             last == sq[Len(sq)]
         IN  IF \E i \in 1..Len(front) : front[i] = last
             THEN front ELSE Append(front, last)

(* C5: entity_mentions, span_to_span_id and spans hold the same spans;     *)
(* every entry of entity_mentions is keyed by its own span and is the      *)
(* mention added last with that span; spans without its repetitions lists  *)
(* the spans in the iteration order of span_to_span_id.                    *)
C5_IndexesAgree ==
    /\ DictKeySet(entity_mentions) = DictKeySet(span_to_span_id)
    /\ DictKeySet(span_to_span_id) = {spans[i] : i \in 1..Len(spans)}
    /\ \A i \in 1..Len(entity_mentions) :
         /\ entity_mentions[i][2].span = entity_mentions[i][1]
         /\ entity_mentions[i][2] = added[LastAdded(entity_mentions[i][1])]
    /\ \A i, j \in 1..Len(entity_mentions) :
         i # j => entity_mentions[i][1] # entity_mentions[j][1]
    /\ Dedup(spans) = DictKeys(span_to_span_id)

C5_Witness ==
    /\ SomeSpanReAdded
    /\ CalledAfterConstruction
    /\ Len(entity_mentions) > 1
    /\ spans[1] = spans[Len(spans)]

(* C9 as stated: a mention whose span already has an id gets an id that    *)
(* differs from the one the span held before (checked on the runs whose    *)
(* spans all lie inside the text).                                         *)
C9_ReAddedSpanGetsNewId ==
    AllValid => \A j, k \in 1..Len(added) :
      (/\ j < k
       /\ added[j].span = added[k].span
       /\ \A i \in (j + 1)..(k - 1) : added[i].span # added[k].span)
      => assigned[k] # assigned[j]

(* C10 as stated: two distinct spans never hold the same id (checked on    *)
(* the runs whose spans all lie inside the text).                          *)
C10_SpanIdsInjective ==
    AllValid => \A i, j \in 1..Len(span_to_span_id) :
      i # j => span_to_span_id[i][2] # span_to_span_id[j][2]

----------------------------------------------------------------------------
(* Specification of an EntityMention: construction, to_dict, from_dict.    *)

EntityIds == 1..MaxCand
Systems == {"ner"}
MentionSpans == (0..MaxCoord) \X (0..MaxCoord)

(* The fields of an Article built without mentions, which the mention      *)
(* specifications leave untouched.                                         *)
IdleArticle ==
    /\ text_len = 0
    /\ entity_mentions = <<>>
    /\ span_to_span_id = <<>>
    /\ spans = <<>>
    /\ assigned = <<>>
    /\ entity_coverage = <<>>
    /\ raised = FALSE
    /\ added = <<>>

(* EntityMention(span, recognized_by, entity_id, linked_by, candidates,    *)
(* referenced_span, contained) with every combination of arguments.        *)
MentionInit ==
    /\ IdleArticle
    /\ \E span \in {sp \in MentionSpans : sp[1] < sp[2]},
          recognized_by \in Opt(Systems),
          entity_id \in Opt(EntityIds),
          linked_by \in Opt(Systems),
          candidates \in Opt(SUBSET EntityIds),
          referenced_span \in Opt({<<0, 1>>}),
          contained \in Opt(BOOLEAN) :
         mention = EntityMention(span, recognized_by, entity_id, linked_by,
                                 candidates, referenced_span, contained)
    /\ dict = None
    /\ parsed = None
    /\ overlap = None

(* dict = mention.to_dict(evaluation_format)                               *)
CallToDict ==
    /\ \E evaluation_format \in BOOLEAN :
         dict' = Some([evaluation_format |-> evaluation_format,
                       data |-> ToDict(mention, evaluation_format)])
    /\ UNCHANGED <<articleVars, mention, parsed, overlap>>

(* parsed = entity_mention_from_dict(dict)                                 *)
CallFromDict ==
    /\ dict # None
    /\ parsed' = Some([evaluation_format |-> dict[1].evaluation_format,
                       mention |-> FromDict(dict[1].data)])
    /\ UNCHANGED <<articleVars, mention, dict, overlap>>

MentionNext == CallToDict \/ CallFromDict

MentionSpec == MentionInit /\ [][MentionNext]_vars

(* Specification of overlaps: a mention with any span, begin <= end or     *)
(* not, tested against any span.                                           *)
OverlapInit ==
    /\ IdleArticle
    /\ \E span \in MentionSpans :
         mention = EntityMention(span, None, None, None, None, None, None)
    /\ dict = None
    /\ parsed = None
    /\ overlap = None

(* overlap = mention.overlaps(span)                                        *)
CallOverlaps ==
    /\ \E span \in MentionSpans :
         overlap' = Some([span |-> span, result |-> Overlaps(mention, span)])
    /\ UNCHANGED <<articleVars, mention, dict, parsed>>

OverlapNext == CallOverlaps

OverlapSpec == OverlapInit /\ [][OverlapNext]_vars

----------------------------------------------------------------------------
(* Properties of an EntityMention.                                         *)

(* C6: a mention read back from its evaluation-format dictionary has the   *)
(* same span, recognized_by, entity_id, linked_by, referenced_span,        *)
(* candidates and contained.                                               *)
C6_FromDictInvertsToDict ==
    (parsed # None /\ parsed[1].evaluation_format) =>
      LET m == parsed[1].mention
      IN  /\ m.span = mention.span
          /\ m.recognized_by = mention.recognized_by
          /\ m.entity_id = mention.entity_id
          /\ m.linked_by = mention.linked_by
          /\ m.referenced_span = mention.referenced_span
          /\ m.candidates = mention.candidates
          /\ m.contained = mention.contained

C6_Witness ==
    /\ parsed # None
    /\ parsed[1].evaluation_format
    /\ mention.contained = Some(FALSE)
    /\ mention.candidates = {}
    /\ mention.entity_id # None
    /\ mention.recognized_by = None

(* C7: without the evaluation format the dictionary has the keys "span",   *)
(* and "id" exactly when entity_id is not None, and no others.             *)
C7_PlainFormatKeys ==
    (dict # None /\ ~dict[1].evaluation_format) =>
      DictKeySet(dict[1].data) =
        IF mention.entity_id = None THEN {"span"} ELSE {"span", "id"}

C7_Witness ==
    /\ dict # None
    /\ ~dict[1].evaluation_format
    /\ mention.entity_id # None
    /\ mention.recognized_by # None
    /\ mention.linked_by # None
    /\ mention.referenced_span # None
    /\ mention.contained # None
    /\ mention.candidates # {}

(* C8 as stated: when the mention's span or the tested span has length     *)
(* zero, overlaps returns false.                                           *)
C8_ZeroLengthNeverOverlaps ==
    overlap # None =>
      ((mention.span[1] = mention.span[2] \/ overlap[1].span[1] = overlap[1].span[2])
         => ~overlap[1].result)

(* C8 amended: a zero-length span overlaps exactly the spans that hold its *)
(* position strictly inside: never itself, another zero-length span or a   *)
(* span at whose boundary it lies.                                         *)
C8_ZeroLengthOverlapsStrictlyInside ==
    overlap # None =>
      LET b == mention.span[1]
          e == mention.span[2]
          c == overlap[1].span[1]
          d == overlap[1].span[2]
      IN  /\ b = e => (overlap[1].result <=> (c < b /\ b < d))
          /\ c = d => (overlap[1].result <=> (b < c /\ c < e))

C8_Witness ==
    /\ overlap # None
    /\ mention.span[1] = mention.span[2]
    /\ overlap[1].result

====
